---------------------------- MODULE Spec2Model ----------------------------
(***************************************************************************)
(* A model of EndToEndClassification/EnvClassification/Models/PiczakCNN.py *)
(* (class Piczak): the graph-construction arithmetic of build_predict_op,  *)
(* the loss op of get_loss_op, and the checkpoint operations save and      *)
(* load_piczak, together with the TensorFlow 1.x graph, session and        *)
(* checkpoint state these methods read and write.                          *)
(*                                                                         *)
(* Names of scopes and variables are sequences of name fragments; the      *)
(* string they stand for is the concatenation of the fragments, so         *)
(* <<"model", "/", "piczak">> is "model/piczak" and <<"model", "_aux">> is *)
(* "model_aux".  No fragment other than "model" starts with the letters of *)
(* "model", so a string starts with "model" exactly when its first         *)
(* fragment is "model".                                                    *)
(***************************************************************************)
EXTENDS Integers, Sequences, FiniteSets, TLC

VARIABLES
    instances,  \* the Piczak objects constructed so far (fields of __init__)
    graphVars,  \* GLOBAL_VARIABLES collection of the graph, in creation order
    value,      \* the session: variable name -> value, or Uninit
    ops,        \* the ops build_predict_op and get_loss_op have returned
    disk,       \* path -> checkpoint written there (name -> [shape, value])
    snapshot,   \* history: path -> session values when the checkpoint was saved
    last        \* the outcome of the latest call

vars == <<instances, graphVars, value, ops, disk, snapshot, last>>

-----------------------------------------------------------------------------
(* Bounds of the model.                                                    *)

MaxN == 2          \* batch sizes 1..MaxN
MaxF == 61         \* frequency bins 1..MaxF (wide specification)
MaxT == 110        \* time frames 1..MaxT (wide specification)
MaxVal == 1        \* parameter values 0..MaxVal

(* Program constants.                                                      *)

DefaultNumClasses == 50   \* num_classes=50
NumFilters == 80          \* num_outputs of cnn_1 and cnn_2
DenseWidth == 5000        \* num_outputs of dense_1 and dense_2
InvKeepProb == 2          \* 1 / keep_prob, keep_prob=0.5

-----------------------------------------------------------------------------
(* Shape arithmetic of the layers used by build_predict_op.                *)

\* the failure of an op's shape inference (a ValueError at graph construction)
ShapeError == << -1 >>

IsShape(s) == s # ShapeError

\* the output size rounded up instead of down
ValidOutCeil(in, k, stride) == ((in - k + stride - 1) \div stride) + 1

\* VALID padding: out = floor((in - k) / stride) + 1, an error when in < k
ValidOut(in, k, stride) == ((in - k) \div stride) + 1

\* the convolution with padding='SAME': the spatial size is ceil(in / stride)
ConvShapeSame(shape, num_outputs, kernel, stride) ==
    << shape[1],
       (shape[2] + stride[1] - 1) \div stride[1],
       (shape[3] + stride[2] - 1) \div stride[2],
       num_outputs >>

\* slim.convolution(x, num_outputs, kernel, stride, padding='VALID') on NHWC
ConvShape(shape, num_outputs, kernel, stride) ==
    IF shape[2] < kernel[1] \/ shape[3] < kernel[2]
    THEN ShapeError
    ELSE << shape[1],
            ValidOut(shape[2], kernel[1], stride[1]),
            ValidOut(shape[3], kernel[2], stride[2]),
            num_outputs >>

\* slim.pool(x, kernel, 'MAX', padding='VALID', stride) on NHWC
PoolShape(shape, kernel, stride) ==
    IF shape[2] < kernel[1] \/ shape[3] < kernel[2]
    THEN ShapeError
    ELSE << shape[1],
            ValidOut(shape[2], kernel[1], stride[1]),
            ValidOut(shape[3], kernel[2], stride[2]),
            shape[4] >>

\* the transpose that leaves the axes where they are
TransposeShapeIdentity(shape, perm) == shape

\* tf.transpose(x, perm), perm 0-based
TransposeShape(shape, perm) == [i \in 1..Len(shape) |-> shape[perm[i] + 1]]

RECURSIVE NumElements(_)
NumElements(shape) ==
    IF shape = <<>> THEN 1 ELSE Head(shape) * NumElements(Tail(shape))

\* tf.reshape(x, [-1] \o dims): the leading dimension is inferred
ReshapeShape(shape, dims) ==
    IF NumElements(dims) = 0 \/ NumElements(shape) % NumElements(dims) # 0
    THEN ShapeError
    ELSE << NumElements(shape) \div NumElements(dims) >> \o dims

\* slim.fully_connected(x, num_outputs) on a rank-2 input
DenseShape(shape, num_outputs) == << shape[1], num_outputs >>


-----------------------------------------------------------------------------
(* Names.                                                                  *)

\* the name prefix of the variable scope that is open when a method is called
ScopePrefix(encl) == IF encl = <<>> THEN <<>> ELSE encl \o <<"/">>

\* with tf.variable_scope('piczak'): ... scope=<layer>: <encl>/piczak/<layer>/<v>
VarName(encl, layer, v) == ScopePrefix(encl) \o <<"piczak", "/", layer, "/", v>>

Layers == <<"cnn_1", "cnn_2", "dense_1", "dense_2", "output">>

NamesOf(varSeq) == {varSeq[k].name : k \in 1..Len(varSeq)}

-----------------------------------------------------------------------------
(* build_predict_op: the straight-line sequence of layer calls.            *)

Stages(self) ==
    << [kind |-> "conv", scope |-> "cnn_1", num_outputs |-> NumFilters,
        kernel |-> <<57, 6>>, stride |-> <<1, 1>>],
       [kind |-> "relu"],
       [kind |-> "dropout", scope |-> "cnn_1"],
       [kind |-> "pool", kernel |-> <<4, 3>>, stride |-> <<1, 3>>],
       [kind |-> "conv", scope |-> "cnn_2", num_outputs |-> NumFilters,
        kernel |-> <<1, 3>>, stride |-> <<1, 1>>],
       [kind |-> "relu"],
       [kind |-> "pool", kernel |-> <<1, 3>>, stride |-> <<1, 3>>],
       [kind |-> "transpose", perm |-> <<0, 2, 1, 3>>],
       [kind |-> "merge"],
       [kind |-> "flatten"],
       [kind |-> "fc", scope |-> "dense_1", num_outputs |-> DenseWidth],
       [kind |-> "relu"],
       [kind |-> "dropout", scope |-> "dense_1"],
       [kind |-> "fc", scope |-> "dense_2", num_outputs |-> DenseWidth],
       [kind |-> "relu"],
       [kind |-> "dropout", scope |-> "dense_2"],
       [kind |-> "fc", scope |-> "output", num_outputs |-> self.num_classes] >>

\* the shape a stage yields from the shape it is given
StageShape(stage, shape) ==
    CASE stage.kind = "conv" ->
            ConvShape(shape, stage.num_outputs, stage.kernel, stage.stride)
      [] stage.kind = "pool" -> PoolShape(shape, stage.kernel, stage.stride)
      [] stage.kind = "transpose" -> TransposeShape(shape, stage.perm)
      [] stage.kind = "merge" ->
            \* shx = get_shape(); reshape(x, [-1, int(shx[1]), int(shx[2] * shx[3])])
            ReshapeShape(shape, << shape[2], shape[3] * shape[4] >>)
      [] stage.kind = "flatten" ->
            \* shx = get_shape(); reshape(x, [-1, int(shx[1]) * int(shx[2])])
            ReshapeShape(shape, << shape[2] * shape[3] >>)
      [] stage.kind = "fc" -> DenseShape(shape, stage.num_outputs)
      [] OTHER -> shape    \* relu and dropout keep the shape

\* the weights and biases a conv or fully connected layer creates on its input
StageVars(encl, stage, shape) ==
    LET wshape == IF stage.kind = "conv"
                  THEN stage.kernel \o << shape[4], stage.num_outputs >>
                  ELSE << shape[2], stage.num_outputs >>
    IN  << [name |-> VarName(encl, stage.scope, "weights"), shape |-> wshape],
           [name |-> VarName(encl, stage.scope, "biases"),
            shape |-> << stage.num_outputs >>] >>

HasVars(stage) == stage.kind \in {"conv", "fc"}

\* the layer call whose get_variable does not refuse an existing name
RunStageNoClash(encl, existing, stage, st) ==
    IF st.err # "ok" THEN st
    ELSE LET new == IF HasVars(stage) THEN StageVars(encl, stage, st.shape)
                    ELSE <<>>
             out == StageShape(stage, st.shape)
         IN  IF ~IsShape(out)
             THEN [st EXCEPT !.err = "ShapeError",
                             !.created = st.created \o new]
             ELSE [st EXCEPT !.shape = out,
                             !.created = st.created \o new,
                             !.trace = Append(st.trace, out)]

\* One layer call.  A layer with parameters first creates them with
\* get_variable (which refuses a name the graph already holds, reuse being
\* off), then builds its op, whose shape inference may fail; the variables
\* created before a failing op stay in the graph.
RunStage(encl, existing, stage, st) ==
    IF st.err # "ok" THEN st
    ELSE LET new == IF HasVars(stage) THEN StageVars(encl, stage, st.shape)
                    ELSE <<>>
             clash == NamesOf(new) \cap (existing \cup NamesOf(st.created)) # {}
             out == StageShape(stage, st.shape)
         IN  IF clash
             THEN [st EXCEPT !.err = "VariableExists"]
             ELSE IF ~IsShape(out)
             THEN [st EXCEPT !.err = "ShapeError",
                             !.created = st.created \o new]
             ELSE [st EXCEPT !.shape = out,
                             !.created = st.created \o new,
                             !.trace = Append(st.trace, out)]

RECURSIVE RunStages(_, _, _, _)
RunStages(encl, existing, stages, st) ==
    IF stages = <<>> THEN st
    ELSE RunStages(encl, existing, Tail(stages),
                   RunStage(encl, existing, Head(stages), st))

\* the result of build_predict_op(self, input_tensor, is_training) called with
\* variable scope encl open in a graph that holds the variables `existing`
BuildResult(self, encl, existing, inShape) ==
    RunStages(encl, existing, Stages(self),
              [shape |-> inShape, created |-> <<>>, trace |-> <<>>, err |-> "ok"])


-----------------------------------------------------------------------------
(* Inputs of the calls.                                                    *)

OtherNumClasses == 10

NumClassesChoices == {DefaultNumClasses, OtherNumClasses}

\* variable scopes a caller may have open around build_predict_op
EnclosingScopes == { <<>>, <<"model">> }

\* variables a caller may create beside the model: "model_aux"
OtherNames == { <<"model", "_aux">> }

Paths == {"ckpt"}

\* every (N, F, T, 1) within the bounds
AllInputs == { <<n, f, t, 1>> : n \in 1..MaxN, f \in 1..MaxF, t \in 1..MaxT }

\* the inputs used where the graph and the checkpoints are explored
FewInputs == { <<1, 60, 41, 1>>, <<1, 59, 41, 1>> }

Uninit == 0 - 1

InitValue == 0

NoCkpt == [absent |-> TRUE]

-----------------------------------------------------------------------------
(* State after import: no object, an empty default graph, no checkpoint.   *)

Init ==
    /\ instances = {}
    /\ graphVars = <<>>
    /\ value = [n \in {} |-> Uninit]
    /\ ops = {}
    /\ disk = [p \in Paths |-> NoCkpt]
    /\ snapshot = [p \in Paths |-> NoCkpt]
    /\ last = [op |-> "none", result |-> "ok"]

\* Piczak(model_name, num_classes, ...): stores its arguments, nothing else
Construct(model_name, num_classes) ==
    /\ instances' = instances \cup
            {[model_name |-> model_name, num_classes |-> num_classes]}
    /\ last' = [op |-> "__init__", result |-> "ok"]
    /\ UNCHANGED <<graphVars, value, ops, disk, snapshot>>

\* self.build_predict_op(input_tensor, is_training) with scope encl open
BuildPredictOp(self, encl, inShape, is_training) ==
    LET r == BuildResult(self, encl, NamesOf(graphVars), inShape)
        newVars == graphVars \o r.created
    IN  /\ graphVars' = newVars
        /\ value' = [n \in NamesOf(newVars) |->
                        IF n \in DOMAIN value THEN value[n] ELSE Uninit]
        /\ ops' = IF r.err = "ok"
                  THEN ops \cup {[kind |-> "logits",
                                  encl |-> encl, num_classes |-> self.num_classes,
                                  input |-> inShape, is_training |-> is_training,
                                  output |-> r.shape]}
                  ELSE ops
        /\ last' = [op |-> "build_predict_op", result |-> r.err,
                    encl |-> encl, num_classes |-> self.num_classes,
                    input |-> inShape, is_training |-> is_training,
                    trace |-> r.trace, created |-> r.created]
        /\ UNCHANGED <<instances, disk, snapshot>>

-----------------------------------------------------------------------------
(* The callers of the class: the code around it that creates other         *)
(* variables, runs the initializers and trains.                            *)

\* tf.Variable(..., name=name) by the caller
CreateVariable(name) ==
    /\ name \notin NamesOf(graphVars)
    /\ graphVars' = Append(graphVars, [name |-> name, shape |-> <<>>])
    /\ value' = [n \in NamesOf(graphVars') |->
                    IF n \in DOMAIN value THEN value[n] ELSE Uninit]
    /\ last' = [op |-> "create_variable", result |-> "ok"]
    /\ UNCHANGED <<instances, ops, disk, snapshot>>

\* sess.run(tf.global_variables_initializer())
Initialize ==
    /\ graphVars # <<>>
    /\ value' = [n \in DOMAIN value |-> InitValue]
    /\ last' = [op |-> "initialize", result |-> "ok"]
    /\ UNCHANGED <<instances, graphVars, ops, disk, snapshot>>

\* one step of an optimizer over the variables of the graph
OptimizerStep ==
    /\ graphVars # <<>>
    /\ \A n \in DOMAIN value : value[n] # Uninit
    /\ value' = [n \in DOMAIN value |-> (value[n] + 1) % (MaxVal + 1)]
    /\ last' = [op |-> "optimizer", result |-> "ok"]
    /\ UNCHANGED <<instances, graphVars, ops, disk, snapshot>>

-----------------------------------------------------------------------------
(* save and load_piczak.                                                   *)

IsPrefix(p, name) == Len(p) <= Len(name) /\ SubSeq(name, 1, Len(p)) = p

\* tf.get_collection(key, scope): the items whose name re.match(scope) accepts
get_collection(collection, scope) ==
    SelectSeq(collection, LAMBDA v : IsPrefix(scope, v.name))

\* vars = tf.get_collection(tf.GraphKeys.GLOBAL_VARIABLES, scope="model")
SavedVars(collection) == get_collection(collection, <<"model">>)

\* the file saver.save writes: every selected variable under its name
CheckpointOf(sel, val) ==
    [n \in NamesOf(sel) |->
        [shape |-> (CHOOSE v \in {sel[k] : k \in 1..Len(sel)} : v.name = n).shape,
         value |-> val[n]]]

\* self.save(path, sess)
Save(path) ==
    LET sel == SavedVars(graphVars)
        result == IF sel = <<>> THEN "ValueError"  \* Saver: no variables to save
                  ELSE IF \E n \in NamesOf(sel) : value[n] = Uninit
                       THEN "FailedPreconditionError"
                       ELSE "ok"
    IN  /\ disk' = IF result = "ok"
                   THEN [disk EXCEPT ![path] = CheckpointOf(sel, value)]
                   ELSE disk
        /\ snapshot' = IF result = "ok"
                       THEN [snapshot EXCEPT
                                ![path] = value]
                       ELSE snapshot
        /\ last' = [op |-> "save", result |-> result, path |-> path,
                    selected |-> NamesOf(sel)]
        /\ UNCHANGED <<instances, graphVars, value, ops>>

\* the outcome of saver.restore(sess, path) for the selected variables
RestoreResult(sel, ckpt) ==
    IF sel = <<>> THEN "ValueError"              \* Saver: no variables to save
    ELSE IF ckpt = NoCkpt THEN "CheckpointNotFound"
    ELSE IF \E n \in NamesOf(sel) : n \notin DOMAIN ckpt THEN "NotFoundError"
    ELSE IF \E k \in 1..Len(sel) : ckpt[sel[k].name].shape # sel[k].shape
         THEN "InvalidArgumentError"
         ELSE "ok"

\* the variables an assign of the restore op can write
Restorable(sel, ckpt) ==
    { sel[k].name : k \in { j \in 1..Len(sel) :
                              ckpt[sel[j].name].shape = sel[j].shape } }

\* self.load_piczak(path, sess).  The restore op is one read of the file
\* followed by one assign per variable, run in no fixed order: when an
\* assign fails on a shape, any of the others may already have run.
LoadPiczak(path) ==
    LET sel == SavedVars(graphVars)
        ckpt == disk[path]
        result == RestoreResult(sel, ckpt)
    IN  /\ \E written \in
                IF result = "ok" THEN {NamesOf(sel)}
                ELSE IF result = "InvalidArgumentError"
                     THEN SUBSET Restorable(sel, ckpt)
                     ELSE {{}} :
              /\ value' = [n \in DOMAIN value |->
                              IF n \in written THEN ckpt[n].value ELSE value[n]]
              /\ last' = [op |-> "load_piczak", result |-> result,
                          path |-> path, selected |-> NamesOf(sel),
                          written |-> written]
        /\ UNCHANGED <<instances, graphVars, ops, disk, snapshot>>

-----------------------------------------------------------------------------
Next ==
    \/ \E c \in {DefaultNumClasses} : Construct("piczak_cnn", c)
    \/ \E self \in instances, encl \in EnclosingScopes, inShape \in FewInputs :
          BuildPredictOp(self, encl, inShape, FALSE)
    \/ \E name \in OtherNames : CreateVariable(name)
    \/ Initialize
    \/ OptimizerStep
    \/ \E path \in Paths : Save(path)
    \/ \E path \in Paths : LoadPiczak(path)

Spec == Init /\ [][Next]_vars


-----------------------------------------------------------------------------
(* Evaluation of the ops in the session.  The content of a tensor is       *)
(* abstracted to one integer: a layer with parameters computes w * x + b,  *)
(* max-pooling, transpose and reshape keep the value.  The labels keep     *)
(* their batch dimension.                                                  *)

InputVals == 1..2

DropoutScopes == {"cnn_1", "dense_1", "dense_2"}

\* mask[scope]: whether the dropout op of that scope keeps the activation
Masks == [DropoutScopes -> BOOLEAN]

\* the masks an evaluation of o draws: an op built with is_training=False
\* holds no random op, its dropout being the identity op
MasksDrawn(o) == IF o.is_training THEN Masks ELSE {[s \in DropoutScopes |-> TRUE]}

\* the dropout that does not look at is_training
DropoutAlways(x, is_training, keep) == IF keep THEN x * InvKeepProb ELSE 0

\* slim.dropout(x, keep_prob=0.5, is_training=is_training): in training a
\* kept activation is scaled by 1/keep_prob and a dropped one is 0
Dropout(x, is_training, keep) ==
    IF is_training THEN (IF keep THEN x * InvKeepProb ELSE 0) ELSE x

relu(x) == IF x > 0 THEN x ELSE 0

EvalStage(stage, x, val, encl, is_training, mask) ==
    CASE HasVars(stage) ->
            val[VarName(encl, stage.scope, "weights")] * x
               + val[VarName(encl, stage.scope, "biases")]
      [] stage.kind = "relu" -> relu(x)
      [] stage.kind = "dropout" -> Dropout(x, is_training, mask[stage.scope])
      [] OTHER -> x

RECURSIVE EvalStages(_, _, _, _, _, _)
EvalStages(stages, x, val, encl, is_training, mask) ==
    IF stages = <<>> THEN x
    ELSE EvalStages(Tail(stages),
                    EvalStage(Head(stages), x, val, encl, is_training, mask),
                    val, encl, is_training, mask)

\* the value of the logits op o on input x under the drawn dropout masks
Logits(o, x, val, mask) ==
    EvalStages(Stages(o), x, val, o.encl, o.is_training, mask)

ParamsOf(o) ==
    {VarName(o.encl, Layers[k], v) : k \in 1..Len(Layers), v \in {"weights", "biases"}}

\* the forward pass that also assigns to the parameters it reads
ForwardAssigning(o, x, mask) ==
    /\ o.kind = "logits"
    /\ value' = [n \in DOMAIN value |-> IF n \in ParamsOf(o) THEN InitValue ELSE value[n]]
    /\ last' = [op |-> "forward", result |-> "ok", target |-> o, x |-> x,
                logits |-> Logits(o, x, value, mask)]
    /\ UNCHANGED <<instances, graphVars, ops, disk, snapshot>>

\* sess.run(predict_op, feed_dict={input_tensor: x})
Forward(o, x, mask) ==
    /\ o.kind = "logits"
    /\ LET ready == \A n \in ParamsOf(o) : value[n] # Uninit
       IN  last' = [op |-> "forward",
                    result |-> IF ready THEN "ok" ELSE "FailedPreconditionError",
                    target |-> o, x |-> x,
                    logits |-> IF ready THEN Logits(o, x, value, mask) ELSE 0]
    /\ UNCHANGED <<instances, graphVars, value, ops, disk, snapshot>>

\* the check that accepts every label shape
LossOpResultUnchecked(logitsShape, labelShape) == "ok"

\* tf.nn.sparse_softmax_cross_entropy_with_logits at graph construction:
\* the labels must have the shape of the logits without its last dimension
LossOpResult(logitsShape, labelShape) ==
    IF Len(labelShape) # Len(logitsShape) - 1 THEN "ValueError"
    ELSE IF labelShape # SubSeq(logitsShape, 1, Len(logitsShape) - 1)
         THEN "ValueError"
         ELSE "ok"

\* self.get_loss_op(prediction, label_tensor), label_tensor of a static shape
GetLossOp(prediction, labelShape) ==
    /\ prediction.kind = "logits"
    /\ LET result == LossOpResult(prediction.output, labelShape)
       IN  /\ ops' = IF result = "ok"
                     THEN ops \cup {[prediction EXCEPT !.kind = "loss"]}
                     ELSE ops
           /\ last' = [op |-> "get_loss_op", result |-> result,
                       prediction |-> prediction, labelShape |-> labelShape]
    /\ UNCHANGED <<instances, graphVars, value, disk, snapshot>>

\* loss = reduce_mean(sparse_softmax_cross_entropy_with_logits(labels, logits))
\* as the terms it averages; the kernel does not compute a term whose label
\* is not a class index: the CPU kernel raises, the GPU kernel yields NaN
LossValue(z, labels, num_classes) ==
    [reduce |-> "mean",
     nan |-> \E i \in 1..Len(labels) : labels[i] \notin 0..(num_classes - 1),
     terms |-> [i \in 1..Len(labels) |-> [logits |-> z, label |-> labels[i]]]]

\* sess.run(loss, feed_dict={input_tensor: x, label_tensor: labels})
EvalLoss(o, x, labels, mask, device) ==
    /\ o.kind = "loss"
    /\ Len(labels) = o.output[1]
    /\ LET ready == \A n \in ParamsOf(o) : value[n] # Uninit
           v == LossValue(Logits(o, x, value, mask), labels, o.num_classes)
           result == IF ~ready THEN "FailedPreconditionError"
                     ELSE IF v.nan /\ device = "cpu" THEN "InvalidArgumentError"
                     ELSE "ok"
       IN  last' = [op |-> "loss", result |-> result, target |-> o, x |-> x,
                    labels |-> labels, loss |-> v]
    /\ UNCHANGED <<instances, graphVars, value, ops, disk, snapshot>>

\* labels fed to a loss op of num_classes classes: the last class index and
\* the first value out of range
LabelVals(num_classes) == {num_classes - 1, num_classes}

LabelShapes == {<<m>> : m \in 1..MaxN} \cup {<<1, 1>>}

\* the state after one build_predict_op on (N, 60, 41, 1) and the initializers
InitEval ==
    \E encl \in EnclosingScopes, n \in 1..MaxN, t \in BOOLEAN :
       LET self == [model_name |-> "piczak_cnn", num_classes |-> DefaultNumClasses]
           r == BuildResult(self, encl, {}, <<n, 60, 41, 1>>)
       IN  /\ instances = {self}
           /\ graphVars = r.created
           /\ value = [v \in NamesOf(r.created) |-> InitValue]
           /\ ops = {[kind |-> "logits", encl |-> encl,
                      num_classes |-> self.num_classes, input |-> <<n, 60, 41, 1>>,
                      is_training |-> t, output |-> r.shape]}
           /\ disk = [p \in Paths |-> NoCkpt]
           /\ snapshot = [p \in Paths |-> NoCkpt]
           /\ last = [op |-> "initialize", result |-> "ok"]

NextEval ==
    \/ \E o \in ops, x \in InputVals : \E mask \in MasksDrawn(o) : Forward(o, x, mask)
    \/ \E o \in ops, labelShape \in LabelShapes : GetLossOp(o, labelShape)
    \/ \E o \in ops, x \in InputVals, device \in {"cpu", "gpu"} :
          \E mask \in MasksDrawn(o), labels \in [1..o.input[1] -> LabelVals(o.num_classes)] :
             EvalLoss(o, x, labels, mask, device)
    \/ OptimizerStep
    \/ \E path \in Paths : Save(path)
    \/ \E path \in Paths : LoadPiczak(path)

SpecEval == InitEval /\ [][NextEval]_vars

-----------------------------------------------------------------------------
(* The first build_predict_op of a fresh graph, over every input shape     *)
(* within the bounds and both values of is_training.                       *)

InitShape ==
    /\ instances \in { {[model_name |-> "piczak_cnn", num_classes |-> c]} :
                          c \in NumClassesChoices }
    /\ graphVars = <<>>
    /\ value = [n \in {} |-> Uninit]
    /\ ops = {}
    /\ disk = [p \in Paths |-> NoCkpt]
    /\ snapshot = [p \in Paths |-> NoCkpt]
    /\ last = [op |-> "none", result |-> "ok"]

NextShape ==
    /\ graphVars = <<>>
    /\ \E self \in instances, inShape \in AllInputs, t \in BOOLEAN :
          BuildPredictOp(self, <<>>, inShape, t)

SpecShape == InitShape /\ [][NextShape]_vars

-----------------------------------------------------------------------------
(* Properties of the shapes.                                               *)

Built == last.op = "build_predict_op"

BuiltOk == Built /\ last.result = "ok"

\* positions in last.trace, one entry per layer call of build_predict_op
StageKinds == [k \in 1..Len(Stages([num_classes |-> DefaultNumClasses])) |->
                  Stages([num_classes |-> DefaultNumClasses])[k].kind]
AtTranspose == CHOOSE k \in 1..Len(StageKinds) : StageKinds[k] = "transpose"
AtPool2 == AtTranspose - 1
AtMerge == CHOOSE k \in 1..Len(StageKinds) : StageKinds[k] = "merge"
AtFlatten == CHOOSE k \in 1..Len(StageKinds) : StageKinds[k] = "flatten"
AtLogits == Len(StageKinds)

\* C1 as stated: for input (N, 60, 41, 1) and num_classes=50 the logits are
\* (N, 50) and the flattened tensor fed to dense_1 has 800 features.
C1_Original ==
    (Built /\ last.input[2] = 60 /\ last.input[3] = 41
           /\ last.num_classes = DefaultNumClasses)
    => /\ last.result = "ok"
       /\ last.trace[AtLogits] = << last.input[1], DefaultNumClasses >>
       /\ last.trace[AtFlatten] = << last.input[1], 800 >>

\* C1 amended: for input (N, 60, 41, 1) and num_classes=50 the logits are
\* (N, 50), the second max-pool yields (N, 1, 3, 80) and the flattened tensor
\* has 240 features; the shapes (N, 10, 1, 80), (N, 10, 80) and (N, 800) are
\* those of an input (N, 60, T, 1) with 101 <= T <= 109.
C1_Shapes ==
    /\ (Built /\ last.input[2] = 60 /\ last.input[3] = 41
              /\ last.num_classes = DefaultNumClasses)
       => /\ last.result = "ok"
          /\ last.trace[AtLogits] = << last.input[1], DefaultNumClasses >>
          /\ last.trace[AtPool2] = << last.input[1], 1, 3, NumFilters >>
          /\ last.trace[AtFlatten] = << last.input[1], 240 >>
    /\ (Built /\ last.input[2] = 60 /\ last.input[3] \in 101..109)
       => /\ last.result = "ok"
          /\ last.trace[AtTranspose] = << last.input[1], 10, 1, NumFilters >>
          /\ last.trace[AtMerge] = << last.input[1], 10, NumFilters >>
          /\ last.trace[AtFlatten] = << last.input[1], 800 >>
    /\ (BuiltOk /\ last.input[2] = 60 /\ last.trace[AtFlatten][2] = 800)
       => last.input[3] \in 101..109

C1_Witness ==
    /\ BuiltOk /\ last.input = <<2, 60, 41, 1>>
    /\ last.num_classes = DefaultNumClasses
    /\ last.trace[AtFlatten] = <<2, 240>>

\* the spatial sizes after conv (57,6), pool (4,3)/(1,3), conv (1,3) and
\* pool (1,3)/(1,3), by the valid-padding arithmetic on F and T alone
RawSizes(F, T) ==
    LET h1 == F - 57 + 1
        w1 == T - 6 + 1
        h2 == h1 - 4 + 1
        w2 == ((w1 - 3) \div 3) + 1
        w3 == w2 - 3 + 1
        w4 == ((w3 - 3) \div 3) + 1
    IN  << h1, w1, h2, w2, h2, w3, h2, w4 >>

\* C5: build_predict_op on (N, F, T, 1) in a fresh graph fails with a shape
\* error at graph construction, returning no logits op, exactly when one of
\* the four convolution/pooling stages would yield a non-positive height or
\* width (so whenever F < 57 or T < 6); otherwise it returns a logits op and
\* every dimension of every intermediate tensor is strictly positive.
C5_ShapeFailure ==
    Built =>
      LET raw == RawSizes(last.input[2], last.input[3])
          tooSmall == \E k \in 1..Len(raw) : raw[k] <= 0
      IN  /\ tooSmall => (last.result = "ShapeError" /\ ops = {})
          /\ (last.input[2] < 57 \/ last.input[3] < 6) => tooSmall
          /\ ~tooSmall =>
                /\ last.result = "ok"
                /\ Len(last.trace) = AtLogits
                /\ \A k \in 1..Len(last.trace) :
                      \A d \in 1..Len(last.trace[k]) : last.trace[k][d] > 0
                /\ \E o \in ops : o.output = last.trace[AtLogits]

C5_Witness ==
    /\ Built /\ last.result = "ShapeError"
    /\ last.input[2] = 59 /\ last.input[3] = 41
    /\ Len(last.trace) = 3

\* C10: whenever the conv/pool stages succeed on (N, F, T, 1), with
\* H = F - 59 and W = floor((floor((T - 8) / 3) - 4) / 3) + 1 the second
\* max-pool yields (N, H, W, 80), the transpose (N, W, H, 80), the first
\* reshape (N, W, H*80) and the flatten (N, W*H*80): the batch dimension and
\* the number of elements are kept.
C10_Reshape ==
    BuiltOk =>
      LET N == last.input[1]
          H == last.input[2] - 59
          W == ((((last.input[3] - 8) \div 3) - 4) \div 3) + 1
      IN  /\ last.trace[AtPool2] = << N, H, W, NumFilters >>
          /\ last.trace[AtTranspose] = << N, W, H, NumFilters >>
          /\ last.trace[AtMerge] = << N, W, H * NumFilters >>
          /\ last.trace[AtFlatten] = << N, W * H * NumFilters >>
          /\ NumElements(last.trace[AtFlatten]) = NumElements(last.trace[AtPool2])

C10_Witness ==
    /\ BuiltOk /\ last.input = <<2, 61, 50, 1>>
    /\ last.trace[AtTranspose] = <<2, 4, 2, 80>>
    /\ last.trace[AtFlatten] = <<2, 640>>


-----------------------------------------------------------------------------
(* Properties of the parameter set and of the checkpoints.                 *)

\* the names of the 5 weight/bias pairs of a model built under scope encl,
\* in creation order
PiczakSeq(encl) ==
    [k \in 1..(2 * Len(Layers)) |->
        VarName(encl, Layers[(k + 1) \div 2],
                IF k % 2 = 1 THEN "weights" ELSE "biases")]

PiczakNames(encl) == {PiczakSeq(encl)[k] : k \in 1..(2 * Len(Layers))}

\* the variables of the graph that build_predict_op created
ModelParams ==
    {n \in NamesOf(graphVars) : \E encl \in EnclosingScopes : n \in PiczakNames(encl)}

\* the parameters of the models build_predict_op has returned
BuiltParams == UNION {PiczakNames(o.encl) : o \in ops}

AllInitialized == \A n \in DOMAIN value : value[n] # Uninit

C2_SavesExactlyModel ==
    (last.op = "save" /\ ops # {} /\ AllInitialized)
    => /\ last.result = "ok"
       /\ last.selected = BuiltParams

\* C3: when load_piczak follows save on the same path with the variables of
\* the graph unchanged in between, it succeeds and every parameter of the
\* model has the value it had when save was called.
C3_RoundTrip ==
    (/\ last.op = "load_piczak" /\ ops # {}
     /\ snapshot[last.path] # NoCkpt
     /\ DOMAIN snapshot[last.path] = NamesOf(graphVars))
    => /\ last.result = "ok"
       /\ \A n \in BuiltParams : value[n] = snapshot[last.path][n]

\* C4: load_piczak on a built model fails with a not-found error when the
\* path holds no checkpoint and with a name/shape-mismatch error when the
\* stored tensors are not those of the model's parameters; a failing load
\* writes no variable; a load that succeeds has written every parameter of
\* the model with its stored value.
C4_AllOrNothing ==
    (last.op = "load_piczak" /\ ops # {})
    => LET ckpt == disk[last.path]
       IN  /\ ckpt = NoCkpt => last.result = "CheckpointNotFound"
           /\ (ckpt # NoCkpt /\ DOMAIN ckpt # BuiltParams)
                 => last.result \in {"NotFoundError", "InvalidArgumentError"}
           /\ last.result # "ok" => last.written = {}
           /\ last.result = "ok" =>
                 \A n \in BuiltParams :
                    n \in last.written /\ value[n] = ckpt[n].value


-----------------------------------------------------------------------------
(* Properties of the evaluations.                                          *)

OutOfRange(labels, num_classes) ==
    \E i \in 1..Len(labels) : labels[i] < 0 \/ labels[i] >= num_classes

\* C6 as stated: a label tensor whose length differs from the batch size of
\* the prediction, or that holds a label outside [0, C), makes the loss fail
\* with a shape-mismatch error; otherwise the loss is the mean over the batch
\* of the per-example cross-entropy terms.
C6_Original ==
    /\ (last.op = "get_loss_op" /\ last.labelShape # <<last.prediction.output[1]>>)
          => last.result = "ValueError"
    /\ (last.op = "loss" /\ OutOfRange(last.labels, last.target.num_classes))
          => last.result = "ValueError"
    /\ (last.op = "loss" /\ ~OutOfRange(last.labels, last.target.num_classes))
          => (last.result = "ok" /\ ~last.loss.nan)

\* C6 amended: get_loss_op fails with a shape-mismatch error, at graph
\* construction, exactly when the shape of label_tensor is not (N) for a
\* prediction (N, C), and otherwise returns the loss op; it does not look at
\* the label values: evaluating the loss with a label outside [0, C) either
\* fails with an invalid-argument error or yields NaN, depending on the
\* kernel that runs, and with every label in [0, C) yields the mean over the
\* N per-example terms, term i pairing the logits with label i.
C6_Loss ==
    /\ last.op = "get_loss_op" =>
          /\ last.result = "ValueError"
                <=> last.labelShape # <<last.prediction.output[1]>>
          /\ last.result = "ok"
                => [last.prediction EXCEPT !.kind = "loss"] \in ops
    /\ last.op = "loss" =>
          IF OutOfRange(last.labels, last.target.num_classes)
          THEN \/ last.result = "InvalidArgumentError"
               \/ (last.result = "ok" /\ last.loss.nan)
          ELSE /\ last.result = "ok"
               /\ ~last.loss.nan
               /\ last.loss.reduce = "mean"
               /\ Len(last.loss.terms) = last.target.input[1]
               /\ \A i \in 1..Len(last.labels) :
                     last.loss.terms[i].label = last.labels[i]

\* a loss op built for a batch of 2 was evaluated with an out-of-range label
\* and returned NaN
C6_Witness ==
    /\ last.op = "loss" /\ last.result = "ok" /\ last.loss.nan
    /\ last.labels = <<DefaultNumClasses - 1, DefaultNumClasses>>

\* C7: with is_training=False every dropout stage returns its input, and the
\* logits evaluated on an input do not depend on the dropout masks drawn:
\* any other evaluation on the same input and parameters yields the same.
C7_Deterministic ==
    (last.op = "forward" /\ last.result = "ok" /\ ~last.target.is_training)
    => /\ \A m \in Masks : Logits(last.target, last.x, value, m) = last.logits
       /\ \A keep \in BOOLEAN :
             Dropout(last.logits, last.target.is_training, keep) = last.logits

\* an evaluation with is_training=False whose logits some mask would have
\* changed had the op been built with is_training=True
C7_Witness ==
    /\ last.op = "forward" /\ last.result = "ok" /\ ~last.target.is_training
    /\ last.logits > 0
    /\ \E m \in Masks :
          Logits([last.target EXCEPT !.is_training = TRUE], last.x, value, m)
             # last.logits

\* C8: a step that changes the value of a variable is a load_piczak or a
\* step of the optimizer: evaluating the logits (in training mode or not),
\* building or evaluating the loss, and save leave every value as it was.
C8_ReadOnly ==
    [][ value' # value => last'.op \in {"load_piczak", "optimizer"} ]_vars

\* a training-mode evaluation and a loss evaluation have run on parameters
\* that training had moved away from their initial values
C8_Witness ==
    /\ last.op \in {"forward", "loss"} /\ last.result = "ok"
    /\ last.target.is_training
    /\ \A n \in DOMAIN value : value[n] # InitValue
    /\ disk # [p \in Paths |-> NoCkpt]

=============================================================================
